---------------------------- MODULE Spec2Model ----------------------------
(***************************************************************************)
(* Model of the aria2 download bot (src/download_bot.py): the in-memory   *)
(* DownloadTracker, the submission handlers (handle_text / handle_file /  *)
(* start_download), the per-job tracking coroutine (track_download) and   *)
(* the bulk cancel callback (cancel_downloads_callback).                  *)
(*                                                                         *)
(* Every handler is an asyncio coroutine.  One action of the model is the *)
(* code a coroutine runs between two awaits: it starts when an awaited    *)
(* call returns (the outcome of the call is the action's input) and ends  *)
(* when the next awaited call has been issued.  Coroutines interleave     *)
(* only at awaits.  The aria2 daemon and the Telegram transport are       *)
(* outside the program: every call to them returns any of the outcomes    *)
(* the client code distinguishes.                                          *)
(*                                                                         *)
(* Left out, as they touch none of the tables: messages the handlers turn *)
(* away before the limit check (text that is no URL or magnet, documents  *)
(* that are no .torrent), the commands that only read (status, stats,     *)
(* my_downloads, help), pause/resume, the retry button (a fixed message)  *)
(* and query.answer() ahead of a button's handler.  The handlers' last    *)
(* reply is issued in the step that decides it: nothing follows it.       *)
(* The Application built by main() runs the handlers of updates one after *)
(* the other; the tracking tasks the handlers spawn run beside them.      *)
(* The handlers themselves hold no lock across their awaits: RacingSpec   *)
(* drives handle_text and handle_file as coroutines called side by side,  *)
(* the concurrent submissions section 5 of the specification speaks of,   *)
(* which the program as main() starts it never produces.                  *)
(***************************************************************************)
EXTENDS Integers, Sequences, FiniteSets, TLC

\* ------------------------------------------------------------------ bounds
NumSubs == 2        \* submissions (messages with a URL, magnet or torrent)
MaxPolls == 2       \* tellStatus polls one tracking loop may issue
MaxCancels == 1     \* presses of the "Cancel All" button
ConcPolls == 1      \* polls per loop when several jobs run side by side
MaxRetries == 1     \* presses of the "Retry Failed" button
MaxCalls == 5       \* calls made to a DownloadTracker driven on its own
MaxBytes == 3       \* largest byte count of the rendering grid
MaxSpeed == 2       \* largest of the low download speeds of the ETA grid

\* ------------------------------------------------------- program constants
\* int(os.getenv('MAX_CONCURRENT_DOWNLOADS', '5')): set by the deployment;
\* the model runs with a limit of 1.
MAX_CONCURRENT_DOWNLOADS == 1

Users == {"u1", "u2"}
Kinds == {"url", "magnet", "torrent"}
Subs == 1 .. NumSubs
\* The daemon hands out a fresh gid for every job it starts.
GIDs == 1 .. NumSubs

VARIABLES
    active_downloads,   \* tracker.active_downloads: gid -> [user_id, name]
    failed_downloads,   \* tracker.failed_downloads: gid -> record
    user_downloads,     \* tracker.user_downloads: user_id -> sequence of gid
    nextGid,            \* the daemon's next fresh gid
    sub,                \* the submission handlers, one per incoming message
    loop,               \* the track_download tasks, one per started gid
    cancel,             \* the cancel_downloads_callback handler
    recording,          \* whether the history fields (hist, calls) are kept
    retry,              \* the retry_failed_callback handler
    tracker_calls       \* the calls made to a DownloadTracker driven on its own

vars == <<active_downloads, failed_downloads, user_downloads, nextGid, sub, loop, cancel,
          recording, retry, tracker_calls>>
registry == <<active_downloads, failed_downloads, user_downloads>>
\* what the submission, tracking and cancel steps leave alone
aside == <<recording, retry, tracker_calls>>

\* ------------------------------------------------------------ dictionaries
Put(d, k, v) == [x \in (DOMAIN d) \cup {k} |-> IF x = k THEN v ELSE d[x]]
Del(d, k) == [x \in (DOMAIN d) \ {k} |-> d[x]]
EmptyDict == [x \in {} |-> 0]

\* list.remove(x): drops the first occurrence of x
RECURSIVE ListRemove(_, _)
ListRemove(s, x) ==
    IF s = <<>> THEN <<>>
    ELSE IF Head(s) = x THEN Tail(s)
    ELSE <<Head(s)>> \o ListRemove(Tail(s), x)

InList(s, x) == \E i \in 1 .. Len(s) : s[i] = x

\* --------------------------------------------------------- DownloadTracker
\* The registry operations are written over explicit tables (ad: the job
\* table, ud: the per-owner index) and return the pair of tables.
GetUserDownloads(ud, user_id) == IF user_id \in DOMAIN ud THEN ud[user_id] ELSE <<>>

get_user_downloads(user_id) == GetUserDownloads(user_downloads, user_id)

add_download_without_index(ad, ud, gid, user_id, name) ==
    [ad |-> Put(ad, gid, [user_id |-> user_id, name |-> name]), ud |-> ud]

add_download(ad, ud, gid, user_id, name) ==
    [ad |-> Put(ad, gid, [user_id |-> user_id, name |-> name]),
     ud |-> Put(ud, user_id, Append(GetUserDownloads(ud, user_id), gid))]

remove_download_keeps_index(ad, ud, gid) ==
    IF gid \in DOMAIN ad THEN [ad |-> Del(ad, gid), ud |-> ud]
    ELSE [ad |-> ad, ud |-> ud]

remove_download(ad, ud, gid) ==
    IF gid \in DOMAIN ad
    THEN LET user_id == ad[gid].user_id
         IN  [ad |-> Del(ad, gid),
              ud |-> IF user_id \in DOMAIN ud /\ InList(ud[user_id], gid)
                     THEN [ud EXCEPT ![user_id] = ListRemove(@, gid)]
                     ELSE ud]
    ELSE [ad |-> ad, ud |-> ud]

\* ------------------------------------------------------------- formatting
\* round(num/den) to the nearest integer, ties to even (what "%.1f" does
\* on a value that is exact in binary)
RoundHalfEven(num, den) ==
    LET q == num \div den
        r == num % den
    IN  IF 2 * r < den THEN q
        ELSE IF 2 * r > den THEN q + 1
        ELSE IF q % 2 = 0 THEN q ELSE q + 1

\* The model's integers are below 2^31, so byte counts stay below 1024^3 / 10
\* and the units past GB (TB, PB) are never reached.
Pow1024(k) == IF k = 0 THEN 1 ELSE IF k = 1 THEN 1024 ELSE IF k = 2 THEN 1048576
              ELSE 1073741824

UnitNames == <<"B", "KB", "MB", "GB">>

\* format_size: <<tenths of the unit, unit>>; "0 B" is <<-1, "B">>
RECURSIVE FormatSizeFrom(_, _)
FormatSizeFrom(n, k) ==
    IF k = 3 \/ n < Pow1024(k + 1)
    THEN <<RoundHalfEven(10 * n, Pow1024(k)), UnitNames[k + 1]>>
    ELSE FormatSizeFrom(n, k + 1)

format_size(bytes_size) ==
    IF bytes_size = 0 THEN <<-1, "B">> ELSE FormatSizeFrom(bytes_size, 0)

format_speed(bytes_per_sec) == <<format_size(bytes_per_sec), "/s">>

\* estimate_time: <<"N/A">>, <<s, "s">>, <<m, "m", s, "s">> or <<h, "h", m, "m">>
estimate_time_inclusive(completed, total, speed) ==
    IF speed = 0 \/ total <= completed THEN <<"N/A">>
    ELSE LET remaining_bytes == total - completed
             secs == remaining_bytes \div speed
         IN  IF remaining_bytes <= 60 * speed THEN <<secs, "s">>
             ELSE IF remaining_bytes <= 3600 * speed
                  THEN <<secs \div 60, "m", secs % 60, "s">>
                  ELSE <<secs \div 3600, "h", (secs % 3600) \div 60, "m">>

estimate_time(completed, total, speed) ==
    IF speed = 0 \/ total <= completed THEN <<"N/A">>
    ELSE LET remaining_bytes == total - completed
             secs == remaining_bytes \div speed
         IN  IF remaining_bytes < 60 * speed THEN <<secs, "s">>
             ELSE IF remaining_bytes < 3600 * speed
                  THEN <<secs \div 60, "m", secs % 60, "s">>
                  ELSE <<secs \div 3600, "h", (secs % 3600) \div 60, "m">>

\* ------------------------------------------------------------ the daemon
\* A JSON-RPC exchange ends in one of three ways: the transport fails (no
\* connection, timeout, HTTP error status), the daemon answers {error:...},
\* or it answers {result: value}.
Reply(kind, value) == [kind |-> kind, value |-> value]

\* aria2_request: raises on a transport fault and on an error answer,
\* returns the result otherwise
aria2_request(reply) ==
    IF reply.kind \in {"fault", "error"}
    THEN [raised |-> TRUE, result |-> reply.value]
    ELSE [raised |-> FALSE, result |-> reply.value]

\* The result of aria2.tellStatus, by the keys track_download reads.
\* btname = "" : no bittorrent.info.name;  errorMessage = "" : key absent.
St(status, completed, total, speed, btname, err) ==
    [status |-> status, completedLength |-> completed, totalLength |-> total,
     downloadSpeed |-> speed, btname |-> btname, errorMessage |-> err]

\* an empty result (None, {}): "not status" holds
NoStatus == St("", 0, 0, 0, "", "")

Active50 == St("active", 50, 100, 10, "", "")
Stalled50 == St("active", 50, 100, 0, "", "")
Torrent50 == St("active", 50, 100, 10, "tname", "")
Complete100 == St("complete", 100, 100, 0, "", "")
Error50 == St("error", 50, 100, 0, "", "disk full")
Removed50 == St("removed", 50, 100, 0, "", "")

StatusValues == {Active50, Stalled50, Torrent50, Complete100, Error50, Removed50}

\* The daemon answers tellStatus for a gid it does not know with an error.
TransportFault == Reply("fault", NoStatus)
UnknownGid == Reply("error", NoStatus)
EmptyResult == Reply("result", NoStatus)

TellStatusReplies ==
    {TransportFault, UnknownGid, EmptyResult} \cup {Reply("result", v) : v \in StatusValues}

\* addUri / addTorrent: a fresh gid, an empty result (value 0), or a failure
StartReplies == {Reply("fault", 0), Reply("error", 0), Reply("result", 0), Reply("result", nextGid)}

TerminalStatuses == {"complete", "error", "removed"}

\* ------------------------------------------------------------------ texts
\* Every message text is a record of the parts that were formatted into it.
Text(kind, name, pct, bar, status, done, total, speed, eta, err) ==
    [kind |-> kind, name |-> name, pct |-> pct, bar |-> bar, status |-> status,
     done |-> done, total |-> total, speed |-> speed, eta |-> eta, err |-> err]

NoSize == <<0, "">>
NoEta == <<"", 0, 0>>
NoBar == <<0, 0>>
PlainText(kind, name) == Text(kind, name, 0, NoBar, "", NoSize, NoSize, NoSize, NoEta, "")

\* last_message_text = ""
EmptyText == PlainText("", "")

\* ---- Python floats: IEEE 754 doubles, 53 significant binary digits
\* A double is kept as its significant digits (most significant first, the
\* first one 1, at most SigBits of them) and the exponent of the last of
\* them: value = Num[sig] * 2^exp.  Zero has no digits.  The arithmetic is
\* written as functions, so that an argument is worked out once, before the
\* function is applied to it.
SigBits == 53
Binary == Seq({0, 1})
Doubles == [sig : Binary, exp : Int]
Double(sig, exp) == [sig |-> sig, exp |-> exp]
Zero == Double(<<>>, 0)

\* the binary digits of n, most significant first
Bits[n \in Nat] == IF n = 0 THEN <<>> ELSE Append(Bits[n \div 2], n % 2)

\* n written with w binary digits
Padded[n \in Nat, w \in Nat] == [i \in 1 .. w |-> (n \div 2 ^ (w - i)) % 2]

\* the number a sequence of binary digits stands for
Num[b \in Binary] ==
    IF Len(b) = 0 THEN 0
    ELSE IF Len(b) = 1 THEN b[1]
    ELSE Num[SubSeq(b, 1, Len(b) - Len(b) \div 2)] * 2 ^ (Len(b) \div 2)
         + Num[SubSeq(b, Len(b) - Len(b) \div 2 + 1, Len(b))]

\* The binary digits of r / d (0 <= r < d), after the ones in acc: n more of
\* them, fewer when the division comes out even, and what is left over.
Digits[r \in Nat, d \in Nat, n \in Nat, acc \in Binary] ==
    IF n = 0 \/ r = 0 THEN [bits |-> acc, rem |-> r]
    ELSE Digits[(2 * r) % d, d, n - 1, Append(acc, (2 * r) \div d)]

\* the zeros ahead of the first 1 among the binary digits of r / d (0 < r < d)
LeadingZeros[r \in Nat, d \in Nat] ==
    IF 2 * r >= d THEN 0 ELSE 1 + LeadingZeros[2 * r, d]

\* digits + 1
Increment[b \in Binary] ==
    LET zeros == {i \in 1 .. Len(b) : b[i] = 0}
    IN  IF zeros = {} THEN <<1>> \o [i \in 1 .. Len(b) |-> 0]
        ELSE LET last == CHOOSE i \in zeros : \A j \in zeros : j <= i
             IN  [i \in 1 .. Len(b) |->
                     IF i < last THEN b[i] ELSE IF i = last THEN 1 ELSE 0]

\* digits * k + carry, for a small k, worked out 16 digits at a time
Times[b \in Binary, k \in Nat, carry \in Nat] ==
    IF Len(b) <= 16 THEN Bits[Num[b] * k + carry]
    ELSE LET v == Num[SubSeq(b, Len(b) - 15, Len(b))] * k + carry
         IN  Times[SubSeq(b, 1, Len(b) - 16), k, v \div 2 ^ 16]
             \o Padded[v % 2 ^ 16, 16]

\* The double nearest to Num[b] * 2^exp (plus something below 2^exp when
\* more is set), ties going to the even neighbour.
RoundToDouble[b \in Binary, exp \in Int, more \in BOOLEAN] ==
    IF Len(b) <= SigBits THEN Double(b, exp)
    ELSE LET head == SubSeq(b, 1, SigBits)
             half == b[SigBits + 1] = 1
             rest == more \/ \E i \in SigBits + 2 .. Len(b) : b[i] = 1
             up == half /\ (rest \/ head[SigBits] = 1)
             sig == IF up THEN Increment[head] ELSE head
             e == exp + Len(b) - SigBits
         IN  IF Len(sig) > SigBits
             THEN Double(SubSeq(sig, 1, SigBits), e + 1)
             ELSE Double(sig, e)

\* whole: the digits of num // den; r: num % den
Quotient[whole \in Binary, r \in Nat, den \in Nat] ==
    LET zeros == IF whole = <<>> THEN LeadingZeros[r, den] ELSE 0
        frac == Digits[r * 2 ^ zeros, den, SigBits + 1 - Len(whole), <<>>]
    IN  RoundToDouble[whole \o frac.bits, 0 - (zeros + Len(frac.bits)),
                      frac.rem # 0]

\* completed / total: the true division of two ints, correctly rounded
TrueDiv[num \in Nat, den \in Nat] ==
    IF num = 0 THEN Zero ELSE Quotient[Bits[num \div den], num % den, den]

\* x * k for a small whole k, correctly rounded
FloatMul[x \in Doubles, k \in Nat] ==
    IF x.sig = <<>> THEN Zero ELSE RoundToDouble[Times[x.sig, k, 0], x.exp, FALSE]

\* the digits of Num[b] * 2^exp ahead of and behind the binary point
Parts[b \in Binary, exp \in Int] ==
    IF exp >= 0 THEN [whole |-> b \o [i \in 1 .. exp |-> 0], frac |-> <<>>]
    ELSE IF 0 - exp >= Len(b)
    THEN [whole |-> <<>>, frac |-> [i \in 1 .. (0 - exp) - Len(b) |-> 0] \o b]
    ELSE [whole |-> SubSeq(b, 1, Len(b) + exp),
          frac |-> SubSeq(b, Len(b) + exp + 1, Len(b))]

\* x // 1: the whole number at or below x
Floor[x \in Doubles] == Num[Parts[x.sig, x.exp].whole]

\* the whole number nearest to whole + 0.frac, ties going to the even one
Nearest[whole \in Nat, frac \in Binary] ==
    IF /\ frac # <<>>
       /\ frac[1] = 1
       /\ (whole % 2 = 1 \/ \E i \in 2 .. Len(frac) : frac[i] = 1)
    THEN whole + 1
    ELSE whole

\* "{x:.1f}" in tenths: the decimal with one digit nearest to the exact
\* value of x, ties going to the even digit
FormatTenths[x \in Doubles] ==
    LET p == Parts[Times[x.sig, 10, 0], x.exp]
    IN  Nearest[Num[p.whole], p.frac]

\* progress = (completed / total) * 100 if total > 0 else 0
Progress[completed \in Nat, total \in Nat] ==
    IF total > 0 THEN FloatMul[TrueDiv[completed, total], 100] ELSE Zero

\* "{progress:.1f}", in tenths of a percent
ProgressTenths(completed, total) == FormatTenths[Progress[completed, total]]

\* int(progress // 10)
ProgressTens(completed, total) == Floor[Progress[completed, total]] \div 10

\* "#" * k + "." * (10 - k): a negative repeat count gives the empty string
Bar[k \in Int] == <<k, IF 10 - k > 0 THEN 10 - k ELSE 0>>

\* progress_bar
ProgressBar(completed, total) == Bar[ProgressTens(completed, total)]

EtaText(e) ==
    IF Len(e) = 1 THEN <<"N/A", 0, 0>>
    ELSE IF Len(e) = 2 THEN <<"s", e[1], 0>>
    ELSE <<e[2] \o e[4], e[1], e[3]>>

ProgressText(name, st) ==
    Text("progress", name,
         ProgressTenths(st.completedLength, st.totalLength),
         ProgressBar(st.completedLength, st.totalLength),
         st.status,
         format_size(st.completedLength), format_size(st.totalLength),
         format_speed(st.downloadSpeed)[1],
         EtaText(estimate_time(st.completedLength, st.totalLength, st.downloadSpeed)),
         "")

PreparingText(name) == PlainText("preparing", name)
TrackingFailedText(name) == PlainText("tracking failed", name)

CompletedText(name, st) ==
    Text("completed", name, 0, NoBar, "", NoSize, format_size(st.totalLength),
         NoSize, NoEta, "")

ErrorMessage(st) == IF st.errorMessage = "" THEN "Unknown error" ELSE st.errorMessage

FailedText(name, st) ==
    Text("failed", name, 0, NoBar, "", NoSize, NoSize, NoSize, NoEta, ErrorMessage(st))

FinalTextAlwaysFailed(name, st) == FailedText(name, st)

FinalText(name, st) ==
    IF st.status = "complete" THEN CompletedText(name, st) ELSE FailedText(name, st)

\* ------------------------------------------------------------- the state
\* reply: the answer to the handler's RPC start call (kept with the history
\* fields only)
NoReply == Reply("", 0)

NoSub == [pc |-> "new", user |-> "", kind |-> "", name |-> "", gid |-> 0,
          starts |-> 0, out |-> "", reply |-> NoReply]

\* gone: where the task stood when cancelAll cleared its job away ("" if it
\* did not).
\* calls: the Notifier calls the task has issued, in order, each with its
\* text and its outcome ("pending" while in flight); hist: the tellStatus
\* replies the task has received, in order.
NoLoop == [pc |-> "none", name |-> "", last |-> EmptyText, text |-> EmptyText,
           st |-> NoStatus,
           polls |-> 0, hist |-> <<>>, calls |-> <<>>, gone |-> ""]

NoCancel == [pc |-> "idle", listed |-> <<>>, i |-> 0, removes |-> 0, purges |-> 0,
             runs |-> 0, out |-> ""]

\* records: the Failed Job Records there were when the button was pressed;
\* calls: the RPC calls the handler issued.
NoRetry == [runs |-> 0, records |-> 0, calls |-> 0, out |-> ""]

Init ==
    /\ active_downloads = EmptyDict
    /\ failed_downloads = EmptyDict
    /\ user_downloads = EmptyDict
    /\ nextGid = 1
    /\ sub = [s \in Subs |-> NoSub]
    /\ loop = [g \in GIDs |-> NoLoop]
    /\ cancel = NoCancel
    /\ recording = FALSE
    /\ retry = NoRetry
    /\ tracker_calls = <<>>

\* ---------------------------------------------------------- the dispatch
\* the handlers of updates (messages, button presses) that are running
HandlersInFlight ==
    Cardinality({s \in Subs : sub[s].pc \notin {"new", "done"}})
    + (IF cancel.pc = "idle" THEN 0 ELSE 1)

\* Application.builder().token(BOT_TOKEN).build(): no concurrent_updates, and
\* every handler is added blocking, so the next update is taken up when the
\* handler of the last one has returned
Dispatch == HandlersInFlight = 0

\* ------------------------------------------- handle_text / handle_file
LimitReachedStrict(user_id) ==
    Len(get_user_downloads(user_id)) > MAX_CONCURRENT_DOWNLOADS

\* the limit check of handle_text and handle_file
LimitReached(user_id) ==
    Len(get_user_downloads(user_id)) >= MAX_CONCURRENT_DOWNLOADS

\* The handler issues its last reply_text (rejection, error report or
\* "started") and does nothing after it: the message is handled.  out tells
\* how, starts how many RPC start calls the handler issued.
Handled(sb, u, out) ==
    [NoSub EXCEPT !.pc = "done", !.user = u, !.out = out, !.starts = sb.starts]

\* handle_text or handle_file is called and runs up to its first await.  At
\* the limit that is the reply_text of the rejection; otherwise the HEAD
\* probe (url), the addUri call (magnet) or get_file (torrent).
Submission(s, u, k) ==
    /\ sub[s].pc = "new"
    /\ IF s = 1 THEN TRUE ELSE sub[s - 1].pc # "new"
    /\ sub' = [sub EXCEPT ![s] =
                 IF LimitReached(u)
                 THEN Handled(@, u, "rejected")
                 ELSE IF k = "url"
                      THEN [@ EXCEPT !.pc = "probe", !.user = u, !.kind = k]
                 ELSE IF k = "magnet"
                      THEN [@ EXCEPT !.pc = "start", !.user = u, !.kind = k,
                                     !.name = "Magnet Link", !.starts = @ + 1]
                 ELSE [@ EXCEPT !.pc = "getfile", !.user = u, !.kind = k,
                                !.name = "doc.torrent"]]
    /\ UNCHANGED <<registry, aside, nextGid, loop, cancel>>

\* A message arrives: the Application calls its handler when no handler of
\* an earlier update is still running.
Arrive(s, u, k) ==
    /\ Dispatch
    /\ Submission(s, u, k)

\* The HEAD probe returns: with a Content-Disposition filename, or without
\* one (also when the probe fails); then addUri is issued.
ProbeReturn(s, found) ==
    /\ sub[s].pc = "probe"
    /\ sub' = [sub EXCEPT ![s] = [@ EXCEPT !.pc = "start",
                                           !.name = IF found THEN "cdname" ELSE "urlname",
                                           !.starts = @ + 1]]
    /\ UNCHANGED <<registry, aside, nextGid, loop, cancel>>

\* context.bot.get_file returns: with the File, download_to_drive is
\* awaited; an exception of get_file is reported to the sender.
GetFileReturn(s, ok) ==
    /\ sub[s].pc = "getfile"
    /\ sub' = [sub EXCEPT ![s] =
                 IF ok THEN [@ EXCEPT !.pc = "download"]
                 ELSE Handled(@, @.user, "failed")]
    /\ UNCHANGED <<registry, aside, nextGid, loop, cancel>>

\* file.download_to_drive returns: the file is read and encoded and
\* addTorrent is issued; an exception of download_to_drive is reported to
\* the sender.
DownloadReturn(s, ok) ==
    /\ sub[s].pc = "download"
    /\ sub' = [sub EXCEPT ![s] =
                 IF ok THEN [@ EXCEPT !.pc = "start", !.starts = @ + 1]
                 ELSE Handled(@, @.user, "failed")]
    /\ UNCHANGED <<registry, aside, nextGid, loop, cancel>>

\* asyncio.create_task(track_download(context, gid, name, chat_id))
SpawnNothing(gid, name) == loop

Spawn(gid, name) ==
    [loop EXCEPT ![gid] = [NoLoop EXCEPT !.pc = "spawned", !.name = name]]

\* the start call raised or returned no gid: the handler replies "Failed to
\* start" or "Download error" and registers nothing
StartFailsSilently(s, reply) ==
    /\ sub' = [sub EXCEPT ![s] = [Handled(@, @.user, "") EXCEPT !.reply = reply]]
    /\ UNCHANGED <<active_downloads, user_downloads, loop, nextGid>>

StartFails(s, reply) ==
    /\ sub' = [sub EXCEPT ![s] = [Handled(@, @.user, "failed") EXCEPT !.reply = reply]]
    /\ UNCHANGED <<active_downloads, user_downloads, loop, nextGid>>

\* addUri / addTorrent returns.  With a gid the job is registered, its
\* tracking task is created and the "started" reply is issued.
StartReturn(s, reply) ==
    /\ sub[s].pc = "start"
    /\ reply \in StartReplies
    /\ LET r == aria2_request(reply)
           gid == r.result
           kept == IF recording THEN reply ELSE NoReply
       IN  IF ~r.raised /\ gid # 0
           THEN LET reg == add_download(active_downloads, user_downloads, gid,
                                        sub[s].user, sub[s].name)
                IN  /\ active_downloads' = reg.ad
                    /\ user_downloads' = reg.ud
                    /\ loop' = Spawn(gid, sub[s].name)
                    /\ nextGid' = nextGid + 1
                    /\ sub' = [sub EXCEPT ![s] = [Handled(@, @.user, "started")
                                                    EXCEPT !.gid = gid, !.reply = kept]]
           ELSE StartFails(s, kept)
    /\ UNCHANGED <<failed_downloads, cancel, aside>>

\* ---------------------------------------------------------- track_download
Call(op, text) == [op |-> op, text |-> text, ok |-> "pending"]

Issue(lp, op, text) ==
    IF recording THEN [lp EXCEPT !.calls = Append(@, Call(op, text))] ELSE lp

\* the outcome of the call in flight (the last one issued)
Returned(lp, ok) ==
    IF recording
    THEN [lp EXCEPT !.calls[Len(lp.calls)].ok = IF ok THEN "ok" ELSE "failed"]
    ELSE lp

\* The task has ended: its locals are gone; the history fields stay.
Ended(lp) == [NoLoop EXCEPT !.pc = "done", !.hist = lp.hist, !.calls = lp.calls]

\* the "finally" clause: remove_download(gid), and the task ends
ExitSkipsRemove(g, lp, ad) ==
    /\ loop' = [loop EXCEPT ![g] = Ended(lp)]
    /\ active_downloads' = ad
    /\ user_downloads' = user_downloads

Exit(g, lp, ad) ==
    LET reg == remove_download(ad, user_downloads, g)
    IN  /\ loop' = [loop EXCEPT ![g] = Ended(lp)]
        /\ active_downloads' = reg.ad
        /\ user_downloads' = reg.ud

\* back at "while gid in tracker.active_downloads": sleep, or leave the loop
ResumeWhileTrue(g, lp, ad) ==
    /\ loop' = [loop EXCEPT ![g] = [lp EXCEPT !.pc = "sleep"]]
    /\ active_downloads' = ad
    /\ user_downloads' = user_downloads

Resume(g, lp, ad) ==
    IF g \in DOMAIN ad
    THEN /\ loop' = [loop EXCEPT ![g] = [lp EXCEPT !.pc = "sleep"]]
         /\ active_downloads' = ad
         /\ user_downloads' = user_downloads
    ELSE Exit(g, lp, ad)

\* tracker.active_downloads.get(gid, {}).copy() with 'error' added
FailedRecord(g, ad, st) ==
    IF g \in DOMAIN ad
    THEN [user_id |-> ad[g].user_id, name |-> ad[g].name, error |-> ErrorMessage(st)]
    ELSE [error |-> ErrorMessage(st)]

\* lines 342-363, after the progress edit: on a terminal status record the
\* failure (error, removed) and issue the final edit; otherwise loop.
AfterEdit(g, lp, ad) ==
    IF lp.st.status \in TerminalStatuses
    THEN /\ failed_downloads' =
               IF lp.st.status = "complete" THEN failed_downloads
               ELSE Put(failed_downloads, g, FailedRecord(g, ad, lp.st))
         /\ loop' = [loop EXCEPT ![g] =
                       [Issue(lp, "edit", FinalText(lp.name, lp.st)) EXCEPT !.pc = "final"]]
         /\ active_downloads' = ad
         /\ user_downloads' = user_downloads
    ELSE /\ failed_downloads' = failed_downloads
         /\ Resume(g, lp, ad)

\* the inner "except Exception": log, sleep, then loop
InnerExceptBreaks(g, lp) ==
    /\ Exit(g, lp, active_downloads)
    /\ UNCHANGED failed_downloads

InnerExcept(g, lp) ==
    /\ loop' = [loop EXCEPT ![g] = [lp EXCEPT !.pc = "errsleep"]]
    /\ UNCHANGED registry

\* "if message_text != last_message_text"
NeedsEditAlways(text, last) == TRUE

NeedsEdit(text, last) == text # last

\* The task starts running: the "Preparing" post is issued.
LoopStart(g) ==
    /\ loop[g].pc = "spawned"
    /\ loop' = [loop EXCEPT ![g] =
                  [Issue(@, "post", PreparingText(@.name)) EXCEPT !.pc = "post"]]
    /\ UNCHANGED <<registry, aside, nextGid, sub, cancel>>

\* send_message returns; a failure is caught by the outer handler, which
\* posts "Tracking failed".
PostReturn(g, ok) ==
    /\ loop[g].pc = "post"
    /\ LET lp == Returned(loop[g], ok)
       IN  IF ok
           THEN Resume(g, lp, active_downloads)
           ELSE /\ loop' = [loop EXCEPT ![g] =
                              [Issue(lp, "post", TrackingFailedText(lp.name))
                                 EXCEPT !.pc = "outer"]]
                /\ UNCHANGED <<active_downloads, user_downloads>>
    /\ UNCHANGED <<failed_downloads, aside, nextGid, sub, cancel>>

OuterReturn(g, ok) ==
    /\ loop[g].pc = "outer"
    /\ Exit(g, Returned(loop[g], ok), active_downloads)
    /\ UNCHANGED <<failed_downloads, aside, nextGid, sub, cancel>>

\* asyncio.sleep(UPDATE_INTERVAL) returns: tellStatus is issued.  A loop
\* polls at most limit times; with limit 0 it polls without bound and its
\* polls are not counted.
SleepReturn(g, limit) ==
    /\ loop[g].pc = "sleep"
    /\ limit = 0 \/ loop[g].polls < limit
    /\ loop' = [loop EXCEPT ![g] =
                  [@ EXCEPT !.pc = "poll", !.polls = IF limit = 0 THEN @ ELSE @ + 1]]
    /\ UNCHANGED <<registry, aside, nextGid, sub, cancel>>

\* tellStatus returns
PollReturn(g, reply) ==
    /\ loop[g].pc = "poll"
    /\ LET r == aria2_request(reply)
           st == r.result
           lp0 == IF recording THEN [loop[g] EXCEPT !.hist = Append(@, reply)] ELSE loop[g]
           name == IF st.btname # "" THEN st.btname ELSE lp0.name
           ad1 == IF st.btname # "" /\ g \in DOMAIN active_downloads
                  THEN [active_downloads EXCEPT ![g].name = name]
                  ELSE active_downloads
           lp1 == [lp0 EXCEPT !.name = name, !.st = st]
       IN  IF r.raised
           THEN InnerExcept(g, lp0)
           ELSE IF st = NoStatus
           THEN /\ Exit(g, lp0, active_downloads)
                /\ UNCHANGED failed_downloads
           ELSE IF st.btname # "" /\ g \notin DOMAIN active_downloads
           THEN \* tracker.active_downloads[gid]['name'] = name raises KeyError
                InnerExcept(g, lp1)
           ELSE \* message_text is built once
                \E text \in {ProgressText(name, st)} :
                    LET lp2 == [lp1 EXCEPT !.text = text]
                    IN  IF NeedsEdit(text, lp2.last)
                        THEN /\ loop' = [loop EXCEPT ![g] =
                                           [Issue(lp2, "edit", text)
                                              EXCEPT !.pc = "edit"]]
                             /\ active_downloads' = ad1
                             /\ UNCHANGED <<failed_downloads, user_downloads>>
                        ELSE AfterEdit(g, lp2, ad1)
    /\ UNCHANGED <<aside, nextGid, sub, cancel>>

\* the progress edit returns; a TelegramError is caught and logged
EditReturn(g, ok) ==
    /\ loop[g].pc = "edit"
    /\ LET lp0 == Returned(loop[g], ok)
           lp1 == IF ok THEN [lp0 EXCEPT !.last = lp0.text] ELSE lp0
       IN  AfterEdit(g, lp1, active_downloads)
    /\ UNCHANGED <<aside, nextGid, sub, cancel>>

\* the final edit returns: "break" when it succeeded; its failure is caught
\* by the inner handler, which sleeps and loops
FinalReturn(g, ok) ==
    /\ loop[g].pc = "final"
    /\ LET lp == Returned(loop[g], ok)
       IN  IF ok
           THEN /\ Exit(g, lp, active_downloads)
                /\ UNCHANGED failed_downloads
           ELSE InnerExcept(g, lp)
    /\ UNCHANGED <<aside, nextGid, sub, cancel>>

\* the sleep of the inner exception handler returns
ErrSleepReturn(g) ==
    /\ loop[g].pc = "errsleep"
    /\ Resume(g, loop[g], active_downloads)
    /\ UNCHANGED <<failed_downloads, aside, nextGid, sub, cancel>>

\* ----------------------------------------------- cancel_downloads_callback
RECURSIVE Ascending(_)
Ascending(S) ==
    IF S = {} THEN <<>>
    ELSE LET m == CHOOSE x \in S : \A y \in S : x <= y
         IN  <<m>> \o Ascending(S \ {m})

\* the gids the daemon has handed out
Issued == 1 .. (nextGid - 1)

Live(g) == loop[g].pc \notin {"none", "done"}

\* The handler issues its last edit_message_text (the confirmation, or the
\* error report of its except clause) and does nothing after it.
Finished(c, out) == [NoCancel EXCEPT !.runs = c.runs, !.out = out]

\* The button is pressed: tellActive is issued.
CancelPress ==
    /\ cancel.pc = "idle"
    /\ Dispatch
    /\ cancel.runs < MaxCancels
    /\ cancel' = [NoCancel EXCEPT !.pc = "list", !.runs = cancel.runs + 1]
    /\ UNCHANGED <<registry, aside, nextGid, sub, loop>>

\* tellActive returns the jobs the daemon has active: the first remove is
\* issued, or the purge when the list is empty.
ListReturn(reply) ==
    /\ cancel.pc = "list"
    /\ LET r == aria2_request(reply)
       IN  cancel' =
             IF r.raised THEN Finished(cancel, "error")
             ELSE IF r.result = <<>>
                  THEN [cancel EXCEPT !.pc = "purge", !.purges = 1]
                  ELSE [cancel EXCEPT !.pc = "remove", !.listed = r.result,
                                      !.i = 1, !.removes = 1]
    /\ UNCHANGED <<registry, aside, nextGid, sub, loop>>

\* a remove call returns: its failure leaves the "for" loop through the
\* handler's except clause
RemoveReturn(reply) ==
    /\ cancel.pc = "remove"
    /\ LET r == aria2_request(reply)
       IN  cancel' =
             IF r.raised THEN Finished(cancel, "error")
             ELSE IF cancel.i < Len(cancel.listed)
                  THEN [cancel EXCEPT !.i = @ + 1, !.removes = @ + 1]
                  ELSE [cancel EXCEPT !.pc = "purge", !.purges = 1]
    /\ UNCHANGED <<registry, aside, nextGid, sub, loop>>

\* purgeDownloadResult returns: the three tables are cleared
PurgeReturn(reply) ==
    /\ cancel.pc = "purge"
    /\ LET r == aria2_request(reply)
       IN  IF r.raised
           THEN /\ cancel' = Finished(cancel, "error")
                /\ UNCHANGED <<registry, loop>>
           ELSE /\ cancel' = Finished(cancel, "cleared")
                /\ active_downloads' = EmptyDict
                /\ failed_downloads' = EmptyDict
                /\ user_downloads' = EmptyDict
                /\ loop' = [g \in GIDs |->
                              IF Live(g) /\ g \in DOMAIN active_downloads
                              THEN [loop[g] EXCEPT !.gone = loop[g].pc]
                              ELSE loop[g]]
    /\ UNCHANGED <<aside, nextGid, sub>>

\* ------------------------------------------- the DownloadTracker on its own
\* The tracker as an object of its own, called by any caller in any order.
\* Each call is logged with the tables it found (ad, ud) and whether it
\* raised; neither method has a raise statement.
RegNames == {"a", "b"}

TrackerCall(name, gid, user_id) ==
    [name |-> name, gid |-> gid, user_id |-> user_id, raised |-> FALSE,
     ad |-> active_downloads, ud |-> user_downloads]

Register(gid, user_id, name) ==
    /\ Len(tracker_calls) < MaxCalls
    /\ LET reg == add_download(active_downloads, user_downloads, gid, user_id, name)
       IN  /\ active_downloads' = reg.ad
           /\ user_downloads' = reg.ud
    /\ tracker_calls' = Append(tracker_calls, TrackerCall("add_download", gid, user_id))
    /\ UNCHANGED <<failed_downloads, nextGid, sub, loop, cancel, recording, retry>>

Unregister(gid) ==
    /\ Len(tracker_calls) < MaxCalls
    /\ LET reg == remove_download(active_downloads, user_downloads, gid)
       IN  /\ active_downloads' = reg.ad
           /\ user_downloads' = reg.ud
    /\ tracker_calls' = Append(tracker_calls, TrackerCall("remove_download", gid, ""))
    /\ UNCHANGED <<failed_downloads, nextGid, sub, loop, cancel, recording, retry>>

\* ---------------------------------------------------- retry_failed_callback
\* The button is pressed: the handler issues its one edit_message_text
\* ("not yet implemented") and does nothing else.
RetryPress ==
    /\ retry.runs < MaxRetries
    /\ Dispatch
    /\ retry' = [runs |-> retry.runs + 1,
                 records |-> Cardinality(DOMAIN failed_downloads),
                 calls |-> 0,
                 out |-> "not implemented"]
    /\ UNCHANGED <<registry, nextGid, sub, loop, cancel, recording, tracker_calls>>

\* ------------------------------------------------------------ the system
CallReplies == {Reply("fault", 0), Reply("error", 0), Reply("result", 1)}
ListReplies ==
    {Reply("fault", <<>>)} \cup {Reply("result", Ascending(S)) : S \in SUBSET Issued}

\* One step of the program, with the inputs it may receive: the submissions
\* subs, sent by users as kinds, the daemon's tellStatus answers replies, and
\* at most limit polls per tracking loop.
Step(subs, users, kinds, replies, limit) ==
    \/ \E s \in subs, u \in users, k \in kinds : Arrive(s, u, k)
    \/ \E s \in subs, found \in BOOLEAN : ProbeReturn(s, found)
    \/ \E s \in subs, ok \in BOOLEAN : GetFileReturn(s, ok)
    \/ \E s \in subs, ok \in BOOLEAN : DownloadReturn(s, ok)
    \/ \E s \in subs, reply \in StartReplies : StartReturn(s, reply)
    \/ \E g \in GIDs : LoopStart(g)
    \/ \E g \in GIDs, ok \in BOOLEAN : PostReturn(g, ok)
    \/ \E g \in GIDs, ok \in BOOLEAN : OuterReturn(g, ok)
    \/ \E g \in GIDs : SleepReturn(g, limit)
    \/ \E g \in GIDs, reply \in replies : PollReturn(g, reply)
    \/ \E g \in GIDs, ok \in BOOLEAN : EditReturn(g, ok)
    \/ \E g \in GIDs, ok \in BOOLEAN : FinalReturn(g, ok)
    \/ \E g \in GIDs : ErrSleepReturn(g)
    \/ CancelPress
    \/ \E reply \in ListReplies : ListReturn(reply)
    \/ \E reply \in CallReplies : RemoveReturn(reply)
    \/ \E reply \in CallReplies : PurgeReturn(reply)

\* Several submissions, their jobs tracked side by side.
ConcReplies ==
    {TransportFault, EmptyResult} \cup
    {Reply("result", v) : v \in {Active50, Torrent50, Complete100}}

Next == Step(Subs, Users, Kinds, ConcReplies, ConcPolls)

Spec == Init /\ [][Next]_vars

\* handle_text and handle_file called side by side, as coroutines of one
\* event loop: a call may start while another stands at an await.  Each
\* runs from await to await as in Spec; only the Application's dispatch is
\* left out.
NextRacing ==
    \/ Next
    \/ \E s \in Subs, u \in Users, k \in Kinds : Submission(s, u, k)

RacingSpec == Init /\ [][NextRacing]_vars

\* One job, followed through its whole life with its history kept.
InitTrack ==
    /\ active_downloads = EmptyDict
    /\ failed_downloads = EmptyDict
    /\ user_downloads = EmptyDict
    /\ nextGid = 1
    /\ sub = [s \in Subs |-> NoSub]
    /\ loop = [g \in GIDs |-> NoLoop]
    /\ cancel = NoCancel
    /\ recording = TRUE
    /\ retry = NoRetry
    /\ tracker_calls = <<>>

NextTrack == Step({1}, {"u1"}, Kinds, TellStatusReplies, MaxPolls)

TrackSpec == InitTrack /\ [][NextTrack]_vars

\* One job that may fail, and the "Retry Failed" button.
RetryReplies == {TransportFault, Reply("result", Error50)}

NextRetry ==
    \/ Step({1}, {"u1"}, Kinds, RetryReplies, 1)
    \/ RetryPress

RetrySpec == InitTrack /\ [][NextRetry]_vars

\* One job whose loop polls without bound, every task getting its turn and
\* every awaited call of a tracking task returning (aria2_request has a
\* timeout of 10 seconds, asyncio.sleep ends).
TaskStep(g) ==
    \/ LoopStart(g)
    \/ \E ok \in BOOLEAN : PostReturn(g, ok)
    \/ \E ok \in BOOLEAN : OuterReturn(g, ok)
    \/ SleepReturn(g, 0)
    \/ \E reply \in TellStatusReplies : PollReturn(g, reply)
    \/ \E ok \in BOOLEAN : EditReturn(g, ok)
    \/ \E ok \in BOOLEAN : FinalReturn(g, ok)
    \/ ErrSleepReturn(g)

NextLive == Step({1}, {"u1"}, Kinds, TellStatusReplies, 0)

LiveSpec == Init /\ [][NextLive]_vars /\ \A g \in GIDs : WF_vars(TaskStep(g))

\* One job polled once, the daemon reporting any completedLength and
\* totalLength of the grid.
SizeReplies ==
    {Reply("result", St("active", c, t, 10, "", "")) : c, t \in 0 .. MaxBytes}

NextRender == Step({1}, {"u1"}, Kinds, TellStatusReplies \cup SizeReplies, 1)

RenderSpec == InitTrack /\ [][NextRender]_vars

\* One job polled once, the daemon reporting lengths and speeds that put
\* the remaining time on both sides of a second, a minute and an hour.
EtaCompleted == {0, 1, 120}
EtaTotals == {0, 1, 59, 60, 61, 119, 120, 121, 3599, 3600, 3601, 3700, 7321}
EtaSpeeds == (0 .. MaxSpeed) \cup {60}

EtaReplies ==
    {Reply("result", St("active", c, t, v, "", "")) :
        c \in EtaCompleted, t \in EtaTotals, v \in EtaSpeeds}

NextEta == Step({1}, {"u1"}, Kinds, TellStatusReplies \cup EtaReplies, 1)

EtaSpec == InitTrack /\ [][NextEta]_vars

\* The DownloadTracker driven on its own, from the empty tables.
NextReg ==
    \/ \E g \in GIDs, u \in Users, n \in RegNames : Register(g, u, n)
    \/ \E g \in GIDs : Unregister(g)

RegSpec == Init /\ [][NextReg]_vars


\* ================================================================ claims
Last(q) == q[Len(q)]

Registered(g) == g \in DOMAIN active_downloads
Indexed(g) == \E u \in DOMAIN user_downloads : InList(user_downloads[u], g)

IsTerminalReply(reply) ==
    reply.kind = "result" /\ reply.value.status \in TerminalStatuses

IsProgressEdit(c) == c.op = "edit" /\ c.text.kind = "progress"

C2_RejectedAtLimit ==
    [][\A s \in Subs :
          (/\ sub[s].pc = "new"
           /\ sub'[s].pc # "new"
           /\ Len(get_user_downloads(sub'[s].user)) >= MAX_CONCURRENT_DOWNLOADS)
          => (/\ sub'[s].pc = "done"
              /\ sub'[s].out = "rejected"
              /\ sub'[s].starts = 0
              /\ registry' = registry
              /\ loop' = loop
              /\ nextGid' = nextGid)]_vars

\* a submission was rejected while another job of its owner was registered
C2_Witness ==
    \E s \in Subs :
        /\ sub[s].out = "rejected"
        /\ sub[s].starts = 0
        /\ Len(get_user_downloads(sub[s].user)) >= MAX_CONCURRENT_DOWNLOADS

\* ----------------------------------------------------------------- C3
\* C3: once a tracking loop has received a poll result with status complete,
\* error or removed, it issues no further tellStatus poll: that result is
\* the last one it receives and no poll is in flight after it, whatever the
\* Notifier calls made while handling it return.
C3_TerminalPollIsLast ==
    \A g \in GIDs : \A i \in 1 .. Len(loop[g].hist) :
        IsTerminalReply(loop[g].hist[i])
        => (i = Len(loop[g].hist) /\ loop[g].pc # "poll")

\* ----------------------------------------------------------------- C4
\* C4: a tellStatus poll that ends in an RPC error neither ends the tracking
\* loop nor touches the tables: the loop goes to the sleep of its exception
\* handler, and when that sleep returns with the job still registered the
\* loop sleeps for its next poll, the job still registered.
C4_PollErrorSurvives ==
    [][\A g \in GIDs :
          /\ (/\ loop[g].pc = "poll"
              /\ loop'[g].pc # "poll"
              /\ aria2_request(Last(loop'[g].hist)).raised)
             => (loop'[g].pc = "errsleep" /\ registry' = registry)
          /\ (/\ loop[g].pc = "errsleep"
              /\ loop'[g].pc # "errsleep"
              /\ Registered(g))
             => (loop'[g].pc = "sleep" /\ g \in DOMAIN active_downloads')]_vars

\* two polls in a row failed (a transport fault, then an error answer) and
\* the loop, its job still registered, sleeps for its next poll
C4_Witness ==
    \E g \in GIDs :
        /\ loop[g].hist = <<TransportFault, UnknownGid>>
        /\ loop[g].pc = "sleep"
        /\ Registered(g)

\* ----------------------------------------------------------------- C5
\* C5: when the cancel handler ends after the daemon listed N jobs (and the
\* purge call, if made, did not fail), it has issued N remove calls and one
\* purge call and the three tables are empty, whether or not a remove call
\* failed.
C5_SweepCompletes ==
    [][(/\ cancel.pc \in {"remove", "purge"}
        /\ cancel'.pc = "idle"
        /\ ~(cancel.pc = "purge" /\ cancel'.out = "error"))
       => (/\ cancel.removes = Len(cancel.listed)
           /\ cancel.purges = 1
           /\ active_downloads' = EmptyDict
           /\ user_downloads' = EmptyDict
           /\ failed_downloads' = EmptyDict)]_vars

\* ----------------------------------------------------------------- C6
\* C6: after cancelAll has removed a job from the registry while the job's
\* tracking loop was in its sleep or in its poll, the loop issues no further
\* Notifier call.
C6_SilentAfterRemoval ==
    [][\A g \in GIDs :
          loop[g].gone \in {"sleep", "poll"}
          => Len(loop'[g].calls) = Len(loop[g].calls)]_vars

\* ----------------------------------------------------------------- C7
\* C7 as stated: within one tracking loop no two progress edits are issued
\* with the same text.
C7_NoRepeatedText ==
    \A g \in GIDs : \A i, j \in 1 .. Len(loop[g].calls) :
        (i < j /\ IsProgressEdit(loop[g].calls[i]) /\ IsProgressEdit(loop[g].calls[j]))
        => loop[g].calls[i].text # loop[g].calls[j].text

\* the text of the last progress edit before call j that succeeded
LastSent(calls, j) ==
    LET S == {i \in 1 .. (j - 1) : IsProgressEdit(calls[i]) /\ calls[i].ok = "ok"}
    IN  IF S = {} THEN EmptyText
        ELSE calls[CHOOSE i \in S : \A k \in S : k <= i].text

\* C7 as amended: a progress edit is issued only with a text that differs
\* from the text of the last progress edit that succeeded (from the empty
\* text before any succeeded).
C7_EditOnlyOnChange ==
    \A g \in GIDs : \A j \in 1 .. Len(loop[g].calls) :
        IsProgressEdit(loop[g].calls[j])
        => loop[g].calls[j].text # LastSent(loop[g].calls, j)

\* the same status was polled twice in a row and edited in once
C7_Witness ==
    \E g \in GIDs :
        /\ loop[g].hist = <<Reply("result", Active50), Reply("result", Active50)>>
        /\ loop[g].pc = "sleep"
        /\ Len(loop[g].calls) = 2
        /\ loop[g].calls[2].ok = "ok"
        /\ loop[g].calls[2].text = ProgressText(loop[g].name, Active50)

\* ----------------------------------------------------------------- C8
\* C8: a poll answered "unknown gid" (as an error answer or as an empty
\* result) ends the tracking loop and removes the job.
C8_UnknownIsTerminal ==
    \A g \in GIDs : \A i \in 1 .. Len(loop[g].hist) :
        loop[g].hist[i] \in {UnknownGid, EmptyResult}
        => (loop[g].pc = "done" /\ ~Registered(g))

\* ----------------------------------------------------------------- C9
\* C9: a job whose tracking loop has ended is in neither the job table nor
\* any owner's list.
C9_EndedIsRetired ==
    \A g \in GIDs : loop[g].pc = "done" => (~Registered(g) /\ ~Indexed(g))

\* a loop ended through the outer handler, after its first post failed
C9_Witness ==
    \E g \in GIDs :
        /\ loop[g].pc = "done"
        /\ Len(loop[g].calls) = 2
        /\ loop[g].calls[1].ok = "failed"
        /\ loop[g].calls[2].text.kind = "tracking failed"

\* ---------------------------------------------------------------- C10
UrlNames == {"urlname", "cdname"}

\* a URL job whose calls all succeeded, polled at 50% and then complete
C10_Scenario(g) ==
    /\ loop[g].pc = "done"
    /\ Len(loop[g].calls) > 0
    /\ loop[g].calls[1].text.name \in UrlNames
    /\ \A i \in 1 .. Len(loop[g].calls) : loop[g].calls[i].ok = "ok"
    /\ Len(loop[g].hist) = 2
    /\ loop[g].hist[1] \in {Reply("result", Active50), Reply("result", Stalled50)}
    /\ loop[g].hist[2] = Reply("result", Complete100)

\* C10: in that scenario the loop made exactly one post, the "Preparing"
\* one; a progress edit showing 50.0%; exactly one "Completed" message, as
\* its last call; and the job is out of the registry.
C10_UrlJobCompletes ==
    \A g \in GIDs :
        C10_Scenario(g)
        => LET c == loop[g].calls
               n == Len(c)
           IN  /\ {i \in 1 .. n : c[i].op = "post"} = {1}
               /\ c[1].text.kind = "preparing"
               /\ \E i \in 1 .. n : IsProgressEdit(c[i]) /\ c[i].text.pct = 500
               /\ {i \in 1 .. n : c[i].text.kind = "completed"} = {n}
               /\ {i \in 1 .. n : c[i].text.kind \in {"failed", "tracking failed"}} = {}
               /\ ~Registered(g)
               /\ ~Indexed(g)

C10_Witness == \E g \in GIDs : C10_Scenario(g)

\* ---------------------------------------------------------------- C11
\* C11: a run of the retry handler issues one retry RPC call for each
\* Failed Job Record there is.
C11_RetryPerRecord ==
    [][retry'.runs > retry.runs => retry'.calls = retry'.records]_vars


\* ---------------------------------------------------------------- C12
\* a poll result that is terminal, or that reports the job unknown
Observed(reply) == IsTerminalReply(reply) \/ reply \in {UnknownGid, EmptyResult}

HasObserved(h) == \E i \in 1 .. Len(h) : Observed(h[i])

\* C12: a registered job leaves the job table only when its own tracking
\* loop has received a terminal status or an "unknown job" answer, and a
\* loop that has received one does not go back to sleep for another poll
\* with the job still registered.
C12_RemovedIffObserved ==
    [][\A g \in GIDs :
          /\ (Registered(g) /\ g \notin DOMAIN active_downloads')
             => HasObserved(loop'[g].hist)
          /\ (HasObserved(loop'[g].hist) /\ loop'[g].pc = "sleep")
             => g \notin DOMAIN active_downloads']_vars


\* ---------------------------------------------------------------- C13
\* the owner of a tracking loop: the sender of the submission that started it
LoopsOf(u) == {g \in GIDs : \E s \in Subs : sub[s].gid = g /\ sub[s].user = u}

LiveLoopsOf(u) == {g \in LoopsOf(u) : Live(g)}

\* C13: no owner has more than MAX_CONCURRENT_DOWNLOADS tracking loops that
\* are spawned and not yet ended.
C13_LiveLoopsWithinLimit ==
    \A u \in Users : Cardinality(LiveLoopsOf(u)) <= MAX_CONCURRENT_DOWNLOADS


\* ---------------------------------------------------------------- C14
\* the tracking tasks created for a gid: one per submission started with it
TasksOf(g) == {s \in Subs : sub[s].gid = g}

\* C14: every gid in the job table has a tracking task that is spawned and
\* has not ended, and exactly one task was created for it.
C14_RegisteredHasOneLoop ==
    \A g \in GIDs : Registered(g) => (Live(g) /\ Cardinality(TasksOf(g)) = 1)

\* one job is registered with its task polling, while another task has ended
\* and its job is retired
C14_Witness ==
    \E g, h \in GIDs :
        /\ Registered(g) /\ loop[g].pc = "poll"
        /\ ~Registered(h) /\ loop[h].pc = "done"


\* ---------------------------------------------------------------- C15
\* the tables call i of the log left behind
TablesAfter(i) ==
    IF i < Len(tracker_calls)
    THEN [ad |-> tracker_calls[i + 1].ad, ud |-> tracker_calls[i + 1].ud]
    ELSE [ad |-> active_downloads, ud |-> user_downloads]

\* how often gid stands in the owners' lists
Occurrences(ud, gid) ==
    Cardinality({<<u, i>> \in Users \X (1 .. MaxCalls + 1) :
                    u \in DOMAIN ud /\ i <= Len(ud[u]) /\ ud[u][i] = gid})

\* C15: add_download called with a gid that is in the job table raises and
\* leaves the job table and the owners' lists as they were, and no gid
\* stands more than once in the owners' lists.
C15_DuplicateRejected ==
    /\ \A i \in 1 .. Len(tracker_calls) :
          LET c == tracker_calls[i]
          IN  (c.name = "add_download" /\ c.gid \in DOMAIN c.ad)
              => (/\ c.raised
                  /\ TablesAfter(i).ad = c.ad
                  /\ TablesAfter(i).ud = c.ud)
    /\ \A g \in GIDs : Occurrences(user_downloads, g) <= 1


\* ---------------------------------------------------------------- C16
\* gid is in the registry: in the job table or in an owner's list
Present(ad, ud, gid) == gid \in DOMAIN ad \/ Occurrences(ud, gid) > 0

\* call i registered a gid that was not present and call i + 1 removed it
RegisteredThenRemoved(i) ==
    /\ i + 1 <= Len(tracker_calls)
    /\ tracker_calls[i].name = "add_download"
    /\ ~Present(tracker_calls[i].ad, tracker_calls[i].ud, tracker_calls[i].gid)
    /\ tracker_calls[i + 1].name = "remove_download"
    /\ tracker_calls[i + 1].gid = tracker_calls[i].gid

\* calls i and i + 1 removed the same gid
RemovedTwice(i) ==
    /\ i + 1 <= Len(tracker_calls)
    /\ tracker_calls[i].name = "remove_download"
    /\ tracker_calls[i + 1].name = "remove_download"
    /\ tracker_calls[i + 1].gid = tracker_calls[i].gid

\* the index after add_download and remove_download of a gid for user_id:
\* as it was, but with an empty list for an owner that had no entry
IndexAfterPair(ud, user_id) ==
    IF user_id \in DOMAIN ud THEN ud ELSE Put(ud, user_id, <<>>)

\* C16: add_download of a gid that is not present followed by
\* remove_download of it leaves the job table as it was before the two
\* calls, and user_downloads as it was except that an owner that had no
\* entry now has one, with an empty list; a remove_download that follows a
\* remove_download of the same gid changes neither table.
C16_RegisterUnregister ==
    \A i \in 1 .. Len(tracker_calls) :
        /\ RegisteredThenRemoved(i)
           => (/\ TablesAfter(i + 1).ad = tracker_calls[i].ad
               /\ TablesAfter(i + 1).ud
                    = IndexAfterPair(tracker_calls[i].ud, tracker_calls[i].user_id))
        /\ RemovedTwice(i)
           => (/\ TablesAfter(i + 1).ad = tracker_calls[i + 1].ad
               /\ TablesAfter(i + 1).ud = tracker_calls[i + 1].ud)

\* C16 as stated: add_download of a gid that is not present followed by
\* remove_download of it leaves the job table and user_downloads exactly as
\* they were before the two calls, and a second remove_download changes
\* neither table.
C16_RestoresRegistry ==
    \A i \in 1 .. Len(tracker_calls) :
        /\ RegisteredThenRemoved(i)
           => (/\ TablesAfter(i + 1).ad = tracker_calls[i].ad
               /\ TablesAfter(i + 1).ud = tracker_calls[i].ud)
        /\ RemovedTwice(i)
           => (/\ TablesAfter(i + 1).ad = tracker_calls[i + 1].ad
               /\ TablesAfter(i + 1).ud = tracker_calls[i + 1].ud)

\* a job was registered for an owner without an entry, removed, and removed
\* again; then a job was registered and removed for the same owner, who by
\* then has an entry
C16_Witness ==
    /\ Len(tracker_calls) = MaxCalls
    /\ RegisteredThenRemoved(1)
    /\ tracker_calls[1].user_id \notin DOMAIN tracker_calls[1].ud
    /\ RemovedTwice(2)
    /\ RegisteredThenRemoved(4)
    /\ tracker_calls[4].user_id = tracker_calls[1].user_id


\* ---------------------------------------------------------------- C17
\* C17: a gid has a record in failed_downloads only if its tracking loop
\* has received a poll result with status error.
C17_FailedOnlyOnError ==
    \A g \in DOMAIN failed_downloads :
        \E i \in 1 .. Len(loop[g].hist) :
            /\ loop[g].hist[i].kind = "result"
            /\ loop[g].hist[i].value.status = "error"


\* ---------------------------------------------------------------- C18
\* the Notifier call of loop g that was in flight returns with a failure
NotifyFails(g) ==
    /\ Len(loop[g].calls) > 0
    /\ Last(loop[g].calls).ok = "pending"
    /\ Len(loop'[g].calls) >= Len(loop[g].calls)
    /\ loop'[g].calls[Len(loop[g].calls)].ok = "failed"

HasTerminal(h) == \E i \in 1 .. Len(h) : IsTerminalReply(h[i])

\* C18: when a Notifier call of a tracking loop fails, the loop carries on as
\* if the call had succeeded.  Before a terminal status was received, and
\* with its job registered, it neither ends nor starts to end and the job
\* stays registered; after one it goes on to the final message or ends,
\* and when it ends its job is out of the job table.
C18_NotifyFailureSwallowed ==
    [][\A g \in GIDs :
          NotifyFails(g)
          => IF HasTerminal(loop[g].hist)
             THEN /\ loop'[g].pc \in {"final", "done"}
                  /\ loop'[g].pc = "done" => g \notin DOMAIN active_downloads'
             ELSE Registered(g)
                  => (/\ loop'[g].pc \notin {"outer", "done"}
                      /\ g \in DOMAIN active_downloads')]_vars


\* ---------------------------------------------------------------- C19
\* C19: a tracking loop whose job cancelAll has cleared away does not go to
\* sleep again and issues a poll only if it was cleared in its sleep (the
\* one poll that sleep leads to), and it ends.
C19_ClearedLoopEnds ==
    /\ [][\A g \in GIDs :
             loop[g].gone # ""
             => (/\ loop'[g].pc = "sleep" => loop[g].pc = "sleep"
                 /\ (loop'[g].pc = "poll" /\ loop[g].pc # "poll")
                    => loop[g].gone = "sleep")]_vars
    /\ \A g \in GIDs : (loop[g].gone # "") ~> (loop[g].pc = "done")

\* a loop was cleared in its sleep, took its poll, which failed, and is in
\* the sleep of its exception handler
C19_Witness ==
    \E g \in GIDs : loop[g].gone = "sleep" /\ loop[g].pc = "errsleep"


\* ---------------------------------------------------------------- C20
\* C20: every progress message a tracking loop renders shows a percentage
\* from 0.0 to 100.0 and a bar of 10 cells, filled and empty together.
C20_ProgressInRange ==
    \A g \in GIDs : \A i \in 1 .. Len(loop[g].calls) :
        IsProgressEdit(loop[g].calls[i])
        => LET t == loop[g].calls[i].text
           IN  /\ t.pct >= 0
               /\ t.pct <= 1000
               /\ t.bar[1] + t.bar[2] = 10


\* ---------------------------------------------------------------- C21
\* the estimate as the claim words it, from r = floor(remaining / speed)
ClaimedEstimate(completed, total, speed) ==
    IF speed = 0 \/ total - completed <= 0 THEN <<"N/A">>
    ELSE LET r == (total - completed) \div speed
         IN  IF r < 60 THEN <<r, "s">>
             ELSE IF r < 3600 THEN <<r \div 60, "m", r % 60, "s">>
             ELSE <<r \div 3600, "h", (r % 3600) \div 60, "m">>

\* the first progress edit of a loop, rendered from its first poll result
FirstProgress(g) ==
    /\ Len(loop[g].hist) = 1
    /\ loop[g].hist[1].kind = "result"
    /\ Len(loop[g].calls) >= 2
    /\ IsProgressEdit(loop[g].calls[2])

\* C21: the ETA shown for a poll result is "N/A" exactly when the speed is 0
\* or nothing remains, and otherwise the floor of remaining / speed as
\* seconds below a minute, minutes and seconds below an hour, hours and
\* minutes from there on; 120 bytes at 60 B/s show "2s", 3700 bytes at 1 B/s
\* show "1h 1m".
C21_EstimateTime ==
    /\ \A g \in GIDs :
          FirstProgress(g)
          => LET st == loop[g].hist[1].value
             IN  loop[g].calls[2].text.eta =
                   EtaText(ClaimedEstimate(st.completedLength, st.totalLength,
                                           st.downloadSpeed))
    /\ estimate_time(0, 120, 60) = <<2, "s">>
    /\ estimate_time(0, 3700, 1) = <<1, "h", 1, "m">>

\* a poll reported 3600 bytes left of 3601 at 1 B/s and the edit shows
\* "1h 0m"
C21_Witness ==
    \E g \in GIDs :
        /\ FirstProgress(g)
        /\ loop[g].hist[1].value = St("active", 1, 3601, 1, "", "")
        /\ loop[g].calls[2].text.eta = <<"hm", 1, 0>>


\* ---------------------------------------------------------------- C22
\* the start call of submission s has returned with a failure or without a
\* gid
StartCallFailed(sb) ==
    /\ sb.reply # NoReply
    /\ aria2_request(sb.reply).raised \/ aria2_request(sb.reply).result = 0

\* C22: when the RPC start call of a submission raises or returns no gid,
\* the handler sends its failure message and ends, no tracking task is
\* created, no gid is taken and the three tables stay as they were.
C22_StartFailureRejected ==
    [][\A s \in Subs :
          (sub[s].pc = "start" /\ sub'[s].pc # "start" /\ StartCallFailed(sub'[s]))
          => (/\ sub'[s].pc = "done"
              /\ sub'[s].out = "failed"
              /\ sub'[s].gid = 0
              /\ loop' = loop
              /\ nextGid' = nextGid
              /\ registry' = registry)]_vars

\* a start call returned an empty result and the submission ended with the
\* failure message, nothing registered
C22_Witness ==
    \E s \in Subs :
        /\ sub[s].reply = Reply("result", 0)
        /\ sub[s].out = "failed"
        /\ sub[s].starts = 1
        /\ active_downloads = EmptyDict


\* ---------------------------------------------------------------- C23
NoDuplicates(q) == \A i, j \in 1 .. Len(q) : q[i] = q[j] => i = j

\* C23: a gid is in the job table with owner u exactly when it stands in
\* u's list; no list holds a gid twice and no gid stands in two lists.
C23_TablesAgree ==
    /\ \A g \in GIDs, u \in Users :
          (Registered(g) /\ active_downloads[g].user_id = u)
          <=> InList(get_user_downloads(u), g)
    /\ \A u \in Users : NoDuplicates(get_user_downloads(u))
    /\ \A g \in GIDs, u, v \in Users :
          (InList(get_user_downloads(u), g) /\ InList(get_user_downloads(v), g))
          => u = v

\* two owners had a job each: one job is registered and listed, the other's
\* loop has ended and removed it, leaving its owner's list empty
C23_Witness ==
    \E g, h \in GIDs, u, v \in Users :
        /\ u # v
        /\ Registered(g) /\ active_downloads[g].user_id = u
        /\ get_user_downloads(u) = <<g>>
        /\ loop[h].pc = "done"
        /\ v \in DOMAIN user_downloads /\ user_downloads[v] = <<>>

\* ---------------------------------------------------------------- C24
\* C24: every record in failed_downloads has the owner, the name and the
\* error text of its job.
C24_FailedRecordComplete ==
    \A g \in DOMAIN failed_downloads :
        {"user_id", "name", "error"} \subseteq DOMAIN failed_downloads[g]

=============================================================================
